---- MODULE Spec2Model ----
(***************************************************************************)
(* A model of src/pages/trading-dashboard.tsx: the TradingDashboard React  *)
(* component.  Three interval timers (market poller, account synchronizer, *)
(* decision cycle) are armed by three effects; each effect re-runs when    *)
(* one of its dependencies changes identity, cancels the timer it armed    *)
(* and, when its condition holds, calls its task once and arms a new timer.*)
(* A task is an async function: its synchronous prefix runs when it is     *)
(* called, and each continuation after an await runs as one step when the  *)
(* awaited request settles.  A task reads the state captured by the        *)
(* closure of the render that created it, never the current state.         *)
(*                                                                         *)
(* One action of the model is one JavaScript task (an event handler, a     *)
(* timer callback or a promise continuation) together with the render and  *)
(* the effect re-runs its state updates cause.                             *)
(***************************************************************************)
EXTENDS Integers, Sequences, FiniteSets, TLC

(***************************************************************************)
(* Bounds of the model.  Each specification follows the whole component    *)
(* and bounds how many requests of each kind a run issues.                 *)
(***************************************************************************)
MaxInFlight == 2        \* requests of one kind pending at the same time
MaxUserActs == 2        \* user actions in a run of Spec
MaxTickerReqs == 2      \* ticker requests issued in a run of Spec
MaxAccountReqs == 2     \* account requests issued in a run of Spec
MaxCycles == 2          \* decision cycles that reach the oracle in a run of Spec
MaxLogLen == 3          \* ledger entries held at the same time in a run of Spec
MaxPolls == 52          \* ticker requests issued in a run of SpecMarket
MaxPollsInFlight == 1   \* ticker requests pending at the same time in SpecMarket
MaxTickerFails == 2     \* ticker requests that fail in a run of SpecMarket
MaxAccountActs == 4      \* user actions in a run of SpecAccount
MaxEdits == 3            \* user actions in a run of SpecEdits
MaxEditTickers == 3      \* ticker requests issued in a run of SpecEdits
MaxEditLogLen == 2       \* ledger entries held at the same time in a run of SpecEdits
MaxTimerActs == 3
MaxTimerTickers == 3
MaxClock == 2
MaxClockActs == 1
MaxLedgerActs == 102    \* user actions in a run of SpecLedger

(***************************************************************************)
(* Program constants.                                                      *)
(***************************************************************************)
HistoryCap == 50        \* .slice(-50)
LogCap == 100           \* .slice(0, 100)

Symbols == {"BTCUSDT", "ETHUSDT"}
Undefined == "undefined"

\* settings as the component reads them (the fields no task reads are left out)
defaultSettings ==
    [ mexcApiKey |-> "", mexcSecretKey |-> "", tradingSymbol |-> "BTCUSDT",
      defaultLeverage |-> 10, isAutoTrading |-> FALSE, intervalMinutes |-> 1,
      isLiveMode |-> FALSE ]

\* what localStorage can hold when the component mounts: nothing, or a record
\* written by an earlier session (handleSave, or the auto-trading toggle)
StoredSettings ==
    { defaultSettings,
      [defaultSettings EXCEPT !.isAutoTrading = TRUE],
      [defaultSettings EXCEPT !.isAutoTrading = TRUE, !.isLiveMode = TRUE,
                              !.mexcApiKey = "k", !.mexcSecretKey = "s"] }

(***************************************************************************)
(* Array helpers.                                                          *)
(***************************************************************************)
\* arr.slice(-n)
SliceLast(s, n) == IF Len(s) <= n THEN s ELSE SubSeq(s, Len(s) - n + 1, Len(s))

\* arr.slice(0, n)
SliceFirst(s, n) == IF Len(s) <= n THEN s ELSE SubSeq(s, 1, n)

\* s without its i-th element
RemoveAt(s, i) == SubSeq(s, 1, i - 1) \o SubSeq(s, i + 1, Len(s))

\* data.f || []
OrEmpty(data, f) == IF f \in DOMAIN data THEN data[f] ELSE <<>>

VARIABLES
    isLoggedIn,         \* useState(false)
    settings,           \* useState<AppSettings>
    marketData,         \* useState<MarketData | null>: <<>> is null, <<m>> is m
    spotBalances, futuresBalances, mexcPositions, mexcOrders, mexcTrades,
    logs,               \* useState<TradingLog[]>
    lastAction,         \* useState<TradeAction | null>: <<>> is null
    isLoading, isAnalyzing,
    mexcStatus,
    tickerReqs,         \* refreshMarket calls awaiting their fetch
    accountReqs,        \* refreshAccountData calls awaiting /api/mexc/account
    cycles,             \* runTradingCycle calls awaiting the oracle or the exchange
    marketTimer, accountTimer, cycleTimer,   \* armed setInterval callbacks
    nTicker, nAccount, nCycle, nUser,        \* how many were issued so far
    now,                \* Date.now()
    fetched,            \* history variable: every point a ticker fetch delivered
    syncs,              \* history variable: how each account request ended, and
                        \* whether refreshAccountData returned at its guard since
    last                \* history variable: what the latest step did

vars == << isLoggedIn, settings, marketData, spotBalances, futuresBalances,
           mexcPositions, mexcOrders, mexcTrades, logs, lastAction, isLoading,
           isAnalyzing, mexcStatus, tickerReqs, accountReqs, cycles,
           marketTimer, accountTimer, cycleTimer, nTicker, nAccount, nCycle,
           nUser, now, fetched, syncs, last >>

accountVars == << spotBalances, futuresBalances, mexcPositions, mexcOrders, mexcTrades >>

(***************************************************************************)
(* The Event Ledger.                                                       *)
(***************************************************************************)
\* a faulty ledger that puts the new entry last
addLogAtEnd(prev, type, message) ==
    SliceFirst(prev \o <<[id |-> ToString(now), type |-> type, message |-> message]>>, LogCap)

\* a faulty ledger whose new entry takes the place of the previous newest
addLogOverPrevious(prev, type, message) ==
    <<[id |-> ToString(now), type |-> type, message |-> message]>>
        \o (IF prev = <<>> THEN <<>> ELSE Tail(prev))

\* addLog: [newLog, ...prev].slice(0, 100)
addLog(prev, type, message) ==
    SliceFirst(<<[id |-> ToString(now), type |-> type, message |-> message]>> \o prev, LogCap)

(***************************************************************************)
(* Closures: what each callback captured from the render that created it.  *)
(***************************************************************************)
MarketClosure(s, loading) == [symbol |-> s.tradingSymbol, isLoading |-> loading]

AccountClosure(s, loggedIn) == [settings |-> s, isLoggedIn |-> loggedIn]

CycleClosure(s, md, positions, loggedIn) ==
    [ settings |-> s, marketData |-> md, mexcPositions |-> positions,
      refreshAccountData |-> AccountClosure(s, loggedIn) ]

\* refreshAccountData's guard
AccountPreconditions(cl) ==
    /\ cl.settings.mexcApiKey # ""
    /\ cl.settings.mexcSecretKey # ""
    /\ cl.isLoggedIn

\* the request refreshAccountData sends
AccountRequest(id, cl) ==
    [ id |-> id, apiKey |-> cl.settings.mexcApiKey,
      secretKey |-> cl.settings.mexcSecretKey, symbol |-> cl.settings.tradingSymbol ]

\* runTradingCycle's guard: the cycle goes on to the oracle
CycleProceeds(cl) == cl.settings.isAutoTrading /\ cl.marketData # <<>>

\* a faulty derivation that reads the last open position
currentPositionSideOfLast(positions) ==
    IF Len(positions) > 0 THEN positions[Len(positions)].side ELSE "NONE"

\* mexcPositions.length > 0 ? mexcPositions[0].side : 'NONE'
currentPositionSide(positions) ==
    IF Len(positions) > 0 THEN positions[1].side ELSE "NONE"

\* the body runTradingCycle posts to /api/ai/analyze
OracleRequest(cl) ==
    [ tradingSymbol |-> cl.settings.tradingSymbol,
      defaultLeverage |-> cl.settings.defaultLeverage,
      marketData |-> cl.marketData[1],
      currentPositionSide |-> currentPositionSide(cl.mexcPositions) ]

\* a cycle that passed its guard: awaiting the oracle
NewCycle(id, cl) == [id |-> id, snap |-> cl, pc |-> "oracle", request |-> OracleRequest(cl)]

\* a faulty cleanup that cancels nothing
ClearIntervalLeaking(timer) == timer

\* clearInterval of the timer the previous run of an effect armed
ClearInterval(timer) == IF timer = <<>> THEN <<>> ELSE SubSeq(timer, 1, Len(timer) - 1)

(***************************************************************************)
(* The render after a step's state updates, and the effects it re-runs.    *)
(* e1, e2, e3 say whether a dependency of the market, account and decision *)
(* effect changed; h holds the pending requests, the counters and          *)
(* isAnalyzing as the step's handler left them.                            *)
(***************************************************************************)
Pending ==
    [ tr |-> tickerReqs, nt |-> nTicker, ar |-> accountReqs, na |-> nAccount,
      cy |-> cycles, nc |-> nCycle, an |-> isAnalyzing, sy |-> syncs ]

\* a faulty market effect whose timer is lost by a step that does not re-run it
MarketEffectOneShot(e1, h) ==
    LET mcl == MarketClosure(settings', isLoading')
    IN  /\ tickerReqs' = IF e1 THEN Append(h.tr, [id |-> h.nt + 1, symbol |-> mcl.symbol,
                                                   isLoading |-> mcl.isLoading])
                               ELSE h.tr
        /\ nTicker' = IF e1 THEN h.nt + 1 ELSE h.nt
        /\ marketTimer' = IF e1 THEN Append(ClearInterval(marketTimer), mcl) ELSE <<>>

\* useEffect(..., [refreshMarket]): refreshMarket(); setInterval(refreshMarket, 5000)
MarketEffect(e1, h) ==
    LET mcl == MarketClosure(settings', isLoading')
    IN  /\ tickerReqs' = IF e1 THEN Append(h.tr, [id |-> h.nt + 1, symbol |-> mcl.symbol,
                                                   isLoading |-> mcl.isLoading])
                               ELSE h.tr
        /\ nTicker' = IF e1 THEN h.nt + 1 ELSE h.nt
        /\ marketTimer' = IF e1 THEN Append(ClearInterval(marketTimer), mcl) ELSE marketTimer

\* a faulty account effect that arms its timer whenever it re-runs
AccountEffectAlwaysArming(e2, h) ==
    LET acl == AccountClosure(settings', isLoggedIn')
        sync == isLoggedIn' /\ settings'.mexcApiKey # "" /\ settings'.mexcSecretKey # ""
        sends == e2 /\ sync /\ AccountPreconditions(acl)
    IN  /\ accountReqs' = IF sends THEN Append(h.ar, AccountRequest(h.na + 1, acl)) ELSE h.ar
        /\ syncs' = IF sends THEN [outcomes |-> Append(h.sy.outcomes, "pending"), unmet |-> FALSE]
                              ELSE h.sy
        /\ nAccount' = IF sends THEN h.na + 1 ELSE h.na
        /\ accountTimer' = IF e2 THEN Append(ClearInterval(accountTimer), acl) ELSE accountTimer

\* useEffect(..., [refreshAccountData, isLoggedIn, mexcApiKey, mexcSecretKey])
AccountEffect(e2, h) ==
    LET acl == AccountClosure(settings', isLoggedIn')
        sync == isLoggedIn' /\ settings'.mexcApiKey # "" /\ settings'.mexcSecretKey # ""
        sends == e2 /\ sync /\ AccountPreconditions(acl)
    IN  /\ accountReqs' = IF sends THEN Append(h.ar, AccountRequest(h.na + 1, acl)) ELSE h.ar
        /\ syncs' = IF sends THEN [outcomes |-> Append(h.sy.outcomes, "pending"), unmet |-> FALSE]
                              ELSE h.sy
        /\ nAccount' = IF sends THEN h.na + 1 ELSE h.na
        /\ accountTimer' = IF e2 THEN (IF sync THEN Append(ClearInterval(accountTimer), acl)
                                               ELSE ClearInterval(accountTimer))
                                 ELSE accountTimer

\* a faulty decision effect whose cleanup leaves the timer armed
CycleEffectKeepingTimer(e3, h) ==
    LET ccl == CycleClosure(settings', marketData', mexcPositions', isLoggedIn')
        auto == settings'.isAutoTrading
        starts == e3 /\ auto /\ CycleProceeds(ccl)
    IN  /\ cycles' = IF starts THEN Append(h.cy, NewCycle(h.nc + 1, ccl)) ELSE h.cy
        /\ nCycle' = IF starts THEN h.nc + 1 ELSE h.nc
        /\ isAnalyzing' = IF starts THEN TRUE ELSE h.an
        /\ cycleTimer' = IF e3 /\ auto THEN Append(ClearInterval(cycleTimer), ccl)
                                       ELSE cycleTimer

\* useEffect(..., [isAutoTrading, intervalMinutes, runTradingCycle])
CycleEffect(e3, h) ==
    LET ccl == CycleClosure(settings', marketData', mexcPositions', isLoggedIn')
        auto == settings'.isAutoTrading
        starts == e3 /\ auto /\ CycleProceeds(ccl)
    IN  /\ cycles' = IF starts THEN Append(h.cy, NewCycle(h.nc + 1, ccl)) ELSE h.cy
        /\ nCycle' = IF starts THEN h.nc + 1 ELSE h.nc
        /\ isAnalyzing' = IF starts THEN TRUE ELSE h.an
        /\ cycleTimer' = IF e3 THEN (IF auto THEN Append(ClearInterval(cycleTimer), ccl)
                                             ELSE ClearInterval(cycleTimer))
                               ELSE cycleTimer

RunEffects(e1, e2, e3, h) ==
    /\ MarketEffect(e1, h)
    /\ AccountEffect(e2, h)
    /\ CycleEffect(e3, h)

\* a step that changes no dependency of any effect
NoEffects(h) == RunEffects(FALSE, FALSE, FALSE, h)

(***************************************************************************)
(* The state after construction: the first render and the mount effects.   *)
(***************************************************************************)
Init ==
    /\ isLoggedIn = FALSE
    /\ settings \in StoredSettings
    /\ marketData = <<>>
    /\ spotBalances = <<>> /\ futuresBalances = <<>> /\ mexcPositions = <<>>
    /\ mexcOrders = <<>> /\ mexcTrades = <<>>
    /\ logs = <<>>
    /\ lastAction = <<>>
    /\ isLoading = TRUE
    /\ isAnalyzing = FALSE
    /\ mexcStatus = "DISCONNECTED"
    \* mount: refreshMarket() is called and its timer armed
    /\ tickerReqs = << [id |-> 1, symbol |-> settings.tradingSymbol, isLoading |-> TRUE] >>
    /\ nTicker = 1
    /\ marketTimer = << MarketClosure(settings, TRUE) >>
    \* mount: not logged in, the account effect does nothing
    /\ accountReqs = <<>> /\ nAccount = 0 /\ accountTimer = <<>>
    \* mount: runTradingCycle() returns at once (marketData is null); timer armed
    /\ cycles = <<>> /\ nCycle = 0
    /\ cycleTimer = IF settings.isAutoTrading
                       THEN << CycleClosure(settings, <<>>, <<>>, FALSE) >>
                       ELSE <<>>
    /\ nUser = 0
    /\ now = 0
    /\ fetched = <<>>
    /\ syncs = [outcomes |-> <<>>, unmet |-> FALSE]
    /\ last = [kind |-> "mount"]

(***************************************************************************)
(* Market Poller.                                                          *)
(***************************************************************************)
\* what /api/market/ticker answers to request id for a symbol: the price tells
\* the symbol and the request apart
PriceAt(symbol, id) == (IF symbol = "BTCUSDT" THEN 100 ELSE 200) + (id % 2)

Ticker(symbol, id) == [price |-> PriceAt(symbol, id), change24h |-> id % 2]

\* a faulty updater that keeps the oldest 50 points
AppendHistoryKeepingOldest(prev, ticker, currentTime) ==
    LET history == IF prev # <<>> THEN prev[1].history ELSE <<>>
        newHistory == SliceFirst(Append(history, [time |-> currentTime, price |-> ticker.price]),
                                 HistoryCap)
    IN  << [price |-> ticker.price, change24h |-> ticker.change24h, history |-> newHistory] >>

\* the updater passed to setMarketData
AppendHistory(prev, ticker, currentTime) ==
    LET history == IF prev # <<>> THEN prev[1].history ELSE <<>>
        newHistory == SliceLast(Append(history, [time |-> currentTime, price |-> ticker.price]),
                                HistoryCap)
    IN  << [price |-> ticker.price, change24h |-> ticker.change24h, history |-> newHistory] >>

\* a faulty refreshMarket whose catch block drops the snapshot
SnapshotDroppedOnFailure(ok, prev, ticker, currentTime) ==
    IF ok THEN AppendHistory(prev, ticker, currentTime) ELSE <<>>

\* refreshMarket after its fetch settled: the try block stores the new
\* snapshot, the catch block stores nothing
SnapshotAfterFetch(ok, prev, ticker, currentTime) ==
    IF ok THEN AppendHistory(prev, ticker, currentTime) ELSE prev

\* the 5 s timer fires: refreshMarket() sends its fetch
MarketTimerFires ==
    /\ \E k \in 1..Len(marketTimer) :
         LET cl == marketTimer[k]
         IN  NoEffects([Pending EXCEPT
                 !.tr = Append(tickerReqs, [id |-> nTicker + 1, symbol |-> cl.symbol,
                                            isLoading |-> cl.isLoading]),
                 !.nt = nTicker + 1])
    /\ last' = [kind |-> "marketTick"]
    /\ UNCHANGED << isLoggedIn, settings, marketData, accountVars, logs, lastAction,
                    isLoading, mexcStatus, nUser, now, fetched >>

\* the fetch of refreshMarket call i settles: ok, or the catch branch
TickerSettles(i, ok) ==
    LET r == tickerReqs[i]
        ticker == Ticker(r.symbol, r.id)
    IN  /\ marketData' = SnapshotAfterFetch(ok, marketData, ticker, now)
        /\ isLoading' = IF r.isLoading THEN FALSE ELSE isLoading
        /\ fetched' = IF ok THEN Append(fetched, [time |-> now, price |-> ticker.price])
                            ELSE fetched
        /\ last' = [kind |-> IF ok THEN "tickerOk" ELSE "tickerFail", id |-> r.id]
        /\ logs' = logs
        /\ UNCHANGED << isLoggedIn, settings, accountVars, lastAction, mexcStatus,
                        nUser, now >>
        /\ RunEffects(isLoading' # isLoading, FALSE, ok,
                      [Pending EXCEPT !.tr = RemoveAt(tickerReqs, i)])

(***************************************************************************)
(* User actions.  The login page is all that is rendered while logged out, *)
(* and the loading screen while isLoading.                                 *)
(***************************************************************************)
ControlsVisible == isLoggedIn /\ ~isLoading

\* handleLogin with the right credentials
handleLogin ==
    /\ ~isLoggedIn
    /\ isLoggedIn' = TRUE
    /\ logs' = addLog(logs, "SUCCESS", "Login successful")
    /\ nUser' = nUser + 1
    /\ last' = [kind |-> "login"]
    /\ UNCHANGED << settings, marketData, accountVars, lastAction, isLoading, mexcStatus,
                    now, fetched >>
    /\ RunEffects(FALSE, TRUE, TRUE, Pending)

\* button-logout: setIsLoggedIn(false)
Logout ==
    /\ ControlsVisible
    /\ isLoggedIn' = FALSE
    /\ nUser' = nUser + 1
    /\ last' = [kind |-> "logout"]
    /\ UNCHANGED << settings, marketData, accountVars, logs, lastAction, isLoading,
                    mexcStatus, now, fetched >>
    /\ RunEffects(FALSE, TRUE, TRUE, Pending)

\* every setSettings call makes a new settings object: the account and the
\* decision effect re-run, the market effect when the symbol changed
SetSettings(updated, kind) ==
    /\ ControlsVisible
    /\ settings' = updated
    /\ nUser' = nUser + 1
    /\ last' = [kind |-> kind]
    /\ UNCHANGED << isLoggedIn, marketData, accountVars, logs, lastAction, isLoading,
                    mexcStatus, now, fetched >>
    /\ RunEffects(updated.tradingSymbol # settings.tradingSymbol, TRUE, TRUE, Pending)

\* button-toggle-autotrading
ToggleAutoTrading ==
    SetSettings([settings EXCEPT !.isAutoTrading = ~settings.isAutoTrading], "toggleAuto")

\* select-trading-mode
SetLiveMode ==
    SetSettings([settings EXCEPT !.isLiveMode = ~settings.isLiveMode], "setLiveMode")

\* input-mexc-api-key, input-mexc-secret-key
SetMexcKeys ==
    \E f \in {"mexcApiKey", "mexcSecretKey"} :
        \E v \in {"", IF f = "mexcApiKey" THEN "k" ELSE "s"} :
            /\ settings[f] # v
            /\ SetSettings([settings EXCEPT ![f] = v], "setKey")

\* input-trading-symbol
SetTradingSymbol ==
    \E v \in Symbols :
        /\ settings.tradingSymbol # v
        /\ SetSettings([settings EXCEPT !.tradingSymbol = v], "setSymbol")

\* an edit of a field no task reads (provider, risk percent, cloud endpoint)
SetOtherField == SetSettings(settings, "setOther")

\* handleSave
handleSave ==
    /\ ControlsVisible
    /\ logs' = addLog(logs, "SUCCESS", "Configuration saved locally.")
    /\ nUser' = nUser + 1
    /\ last' = [kind |-> "save"]
    /\ UNCHANGED << isLoggedIn, settings, marketData, accountVars, lastAction, isLoading,
                    mexcStatus, now, fetched >>
    /\ NoEffects(Pending)

\* button-clear-logs: setLogs([])
ClearLogs ==
    /\ ControlsVisible
    /\ logs' = <<>>
    /\ nUser' = nUser + 1
    /\ last' = [kind |-> "clear"]
    /\ UNCHANGED << isLoggedIn, settings, marketData, accountVars, lastAction, isLoading,
                    mexcStatus, now, fetched >>
    /\ NoEffects(Pending)

\* a millisecond passes
Tick ==
    /\ now' = now + 1
    /\ last' = [kind |-> "tick"]
    /\ UNCHANGED << isLoggedIn, settings, marketData, accountVars, logs, lastAction,
                    isLoading, mexcStatus, nUser, fetched >>
    /\ NoEffects(Pending)

(***************************************************************************)
(* Account Synchronizer.                                                   *)
(***************************************************************************)
\* what /api/mexc/account holds when request id reaches it; every second
\* answer leaves out the positions and the orders
AccountData(id) ==
    IF id % 2 = 1
       THEN [ spotBalances |-> << [asset |-> "USDT", total |-> id] >>,
              futuresBalances |-> << [asset |-> "USDT", total |-> id] >>,
              positions |-> << [side |-> IF id % 4 = 1 THEN "SHORT" ELSE "LONG", id |-> id],
                               [side |-> "LONG", id |-> id] >>,
              orders |-> << [orderId |-> id] >>,
              trades |-> << [id |-> id] >> ]
       ELSE [ spotBalances |-> << [asset |-> "USDT", total |-> id] >>,
              futuresBalances |-> << [asset |-> "USDT", total |-> id] >>,
              trades |-> << [id |-> id] >> ]

\* how an account request can settle: apiRequest rejects (network error or a
\* non-2xx status), response.json() rejects, or a payload is parsed
AccountReplies(id) ==
    { [ok |-> FALSE, message |-> "500: Internal Server Error"],
      [ok |-> FALSE, message |-> "Unexpected token"],
      [ok |-> TRUE, data |-> [error |-> "Invalid API key"]],
      [ok |-> TRUE, data |-> AccountData(id)] }

\* the try block throws: before the first setter runs
AccountThrows(reply) == ~reply.ok \/ "error" \in DOMAIN reply.data

\* e.message in the catch block
AccountErrorMessage(reply) == IF reply.ok THEN reply.data.error ELSE reply.message

\* the synchronous part of refreshAccountData() called through closure cl:
\* the pending requests and the status it leaves
CallRefreshAccountData(cl, h) ==
    IF AccountPreconditions(cl)
       THEN [h EXCEPT !.ar = Append(h.ar, AccountRequest(h.na + 1, cl)), !.na = h.na + 1,
                      !.sy = [outcomes |-> Append(h.sy.outcomes, "pending"), unmet |-> FALSE]]
       ELSE [h EXCEPT !.sy.unmet = TRUE]

StatusAfterCall(cl, status) == IF AccountPreconditions(cl) THEN status ELSE "DISCONNECTED"

\* the 30 s timer fires
AccountTimerFires ==
    /\ \E k \in 1..Len(accountTimer) :
         LET cl == accountTimer[k]
         IN  /\ mexcStatus' = StatusAfterCall(cl, mexcStatus)
             /\ last' = [kind |-> "accountTick",
                         refresh |-> IF AccountPreconditions(cl) THEN "sent" ELSE "skipped"]
             /\ NoEffects(CallRefreshAccountData(cl, Pending))
    /\ UNCHANGED << isLoggedIn, settings, marketData, accountVars, logs, lastAction,
                    isLoading, nUser, now, fetched >>

\* a faulty try block that leaves the orders of the previous response
AccountSuccessKeepingOrders(data) ==
    /\ spotBalances' = OrEmpty(data, "spotBalances")
    /\ futuresBalances' = OrEmpty(data, "futuresBalances")
    /\ mexcPositions' = OrEmpty(data, "positions")
    /\ mexcOrders' = mexcOrders
    /\ mexcTrades' = OrEmpty(data, "trades")
    /\ mexcStatus' = "CONNECTED"
    /\ logs' = addLog(logs, "SUCCESS", "MEXC account synced successfully")

\* the five setters, setMexcStatus('CONNECTED') and addLog of the try block
AccountSuccess(data) ==
    /\ spotBalances' = OrEmpty(data, "spotBalances")
    /\ futuresBalances' = OrEmpty(data, "futuresBalances")
    /\ mexcPositions' = OrEmpty(data, "positions")
    /\ mexcOrders' = OrEmpty(data, "orders")
    /\ mexcTrades' = OrEmpty(data, "trades")
    /\ mexcStatus' = "CONNECTED"
    /\ logs' = addLog(logs, "SUCCESS", "MEXC account synced successfully")

\* a faulty catch block that forgets the positions and the orders
AccountFailureClearing(message) ==
    /\ logs' = addLog(logs, "ERROR", "MEXC sync error: " \o message)
    /\ mexcStatus' = "ERROR"
    /\ mexcPositions' = <<>> /\ mexcOrders' = <<>>
    /\ UNCHANGED << spotBalances, futuresBalances, mexcTrades >>

\* the catch block
AccountFailure(message) ==
    /\ logs' = addLog(logs, "ERROR", "MEXC sync error: " \o message)
    /\ mexcStatus' = "ERROR"
    /\ UNCHANGED accountVars

\* account request i settles with reply
AccountSettles(i, reply) ==
    LET r == accountReqs[i]
        throws == AccountThrows(reply)
    IN  /\ IF throws THEN AccountFailure(AccountErrorMessage(reply))
                     ELSE AccountSuccess(reply.data)
        /\ last' = [kind |-> IF throws THEN "accountFail" ELSE "accountOk", id |-> r.id]
        /\ UNCHANGED << isLoggedIn, settings, marketData, lastAction, isLoading, nUser,
                        now, fetched >>
        \* a success stores a new positions array: runTradingCycle is a new function
        /\ RunEffects(FALSE, FALSE, ~throws,
                      [Pending EXCEPT !.ar = RemoveAt(accountReqs, i),
                                      !.sy.outcomes[r.id] = IF throws THEN "ERROR" ELSE "CONNECTED"])

(***************************************************************************)
(* Decision Cycle Scheduler and Trade Executor.                            *)
(***************************************************************************)
\* how the oracle request can settle: a rejection, or a parsed payload
OracleReplies ==
    { [ok |-> FALSE, message |-> "500: Internal Server Error"],
      [ok |-> TRUE, data |-> [action |-> "LONG", confidence |-> 80, reason |-> "momentum"]],
      [ok |-> TRUE, data |-> [action |-> "WAIT", confidence |-> 50, reason |-> "flat"]],
      [ok |-> TRUE, data |-> [error |-> "Analysis failed"]] }

\* decision.action, decision.confidence of a parsed payload, as a template
\* literal prints them
Field(data, f) ==
    IF f \in DOMAIN data
       THEN (IF f = "confidence" THEN ToString(data[f]) ELSE data[f])
       ELSE Undefined

\* `AI decision: ${decision.action} (${decision.confidence}%)`
DecisionMessage(decision) ==
    "AI decision: " \o Field(decision, "action") \o " (" \o Field(decision, "confidence") \o "%)"

\* a faulty order that reads the settings and the price of the latest render
TradeRequestFromLatestRender(decision, cl) ==
    [ action |-> Field(decision, "action"),
      apiKey |-> settings.mexcApiKey, secretKey |-> settings.mexcSecretKey,
      symbol |-> settings.tradingSymbol, leverage |-> settings.defaultLeverage,
      price |-> marketData[1].price ]

\* the body runTradingCycle posts to /api/mexc/trade
TradeRequest(decision, cl) ==
    [ action |-> Field(decision, "action"),
      apiKey |-> cl.settings.mexcApiKey, secretKey |-> cl.settings.mexcSecretKey,
      symbol |-> cl.settings.tradingSymbol, leverage |-> cl.settings.defaultLeverage,
      price |-> cl.marketData[1].price ]

\* a faulty test that takes every decision as one to act on
ActsOnAnyDecision(decision) == TRUE

\* decision.action !== 'WAIT'
Acts(decision) == Field(decision, "action") # "WAIT"

\* a faulty guard that posts the order without testing the decision
SubmitsOrderUntested(decision, cl) == cl.settings.isLiveMode

\* a faulty guard that posts the order in simulation mode too
SubmitsOrderInAnyMode(decision, cl) == Acts(decision)

\* the order is posted: decision.action !== 'WAIT' and settings.isLiveMode
SubmitsOrder(decision, cl) == Acts(decision) /\ cl.settings.isLiveMode

\* a faulty catch block that forgets the stored decision
StoredDecisionDroppedOnFailure(reply, prev) == IF reply.ok THEN <<reply.data>> ELSE <<>>

\* lastAction after the oracle request settled: setLastAction(decision) runs
\* when the payload was parsed, the catch block stores nothing
StoredDecision(reply, prev) == IF reply.ok THEN <<reply.data>> ELSE prev

\* a faulty runTradingCycle that sets isAnalyzing before its guard
CycleTimerFiresAnalyzingFirst ==
    /\ \E k \in 1..Len(cycleTimer) :
         LET cl == cycleTimer[k]
             proceeds == CycleProceeds(cl)
         IN  /\ last' = [kind |-> "cycleTick", started |-> proceeds]
             /\ NoEffects(IF proceeds
                             THEN [Pending EXCEPT !.cy = Append(cycles, NewCycle(nCycle + 1, cl)),
                                                  !.nc = nCycle + 1, !.an = TRUE]
                             ELSE [Pending EXCEPT !.an = TRUE])
    /\ UNCHANGED << isLoggedIn, settings, marketData, accountVars, logs, lastAction,
                    isLoading, mexcStatus, nUser, now, fetched >>

\* the interval timer of the decision effect fires: runTradingCycle()
CycleTimerFires ==
    /\ \E k \in 1..Len(cycleTimer) :
         LET cl == cycleTimer[k]
             proceeds == CycleProceeds(cl)
         IN  /\ last' = [kind |-> "cycleTick", started |-> proceeds]
             /\ NoEffects(IF proceeds
                             THEN [Pending EXCEPT !.cy = Append(cycles, NewCycle(nCycle + 1, cl)),
                                                  !.nc = nCycle + 1, !.an = TRUE]
                             ELSE Pending)
    /\ UNCHANGED << isLoggedIn, settings, marketData, accountVars, logs, lastAction,
                    isLoading, mexcStatus, nUser, now, fetched >>

\* the oracle request of cycle i settles with reply: the continuation up to
\* the next await, or the catch block
OracleSettles(i, reply) ==
    LET c == cycles[i]
        decision == reply.data
        acts == reply.ok /\ Acts(decision)
        trades == reply.ok /\ SubmitsOrder(decision, c.snap)
    IN  /\ c.pc = "oracle"
        /\ lastAction' = StoredDecision(reply, lastAction)
        /\ logs' = IF ~reply.ok
                      THEN addLog(logs, "ERROR", "AI analysis failed: " \o reply.message)
                      ELSE IF acts
                              THEN addLog(logs, "TRADE", DecisionMessage(decision))
                              ELSE logs
        /\ last' = IF reply.ok
                      THEN [kind |-> "oracleOk", id |-> c.id,
                            action |-> Field(decision, "action"),
                            auto |-> c.snap.settings.isAutoTrading,
                            live |-> c.snap.settings.isLiveMode]
                      ELSE [kind |-> "oracleFail", id |-> c.id]
        /\ UNCHANGED << isLoggedIn, settings, marketData, accountVars, isLoading, mexcStatus,
                        nUser, now, fetched >>
        /\ NoEffects(IF trades
                        THEN [Pending EXCEPT
                                !.cy = [cycles EXCEPT ![i] =
                                          [id |-> c.id, snap |-> c.snap, pc |-> "trade",
                                           request |-> TradeRequest(decision, c.snap)]]]
                        ELSE [Pending EXCEPT !.cy = RemoveAt(cycles, i), !.an = FALSE])

\* a faulty runTradingCycle that posts the order again when it was rejected
TradeSettlesRetrying(i, ok) ==
    LET c == cycles[i]
        cl == c.snap.refreshAccountData
        h == [Pending EXCEPT !.cy = RemoveAt(cycles, i), !.an = FALSE]
    IN  /\ c.pc = "trade"
        /\ logs' = IF ok THEN logs
                         ELSE addLog(logs, "ERROR", "AI analysis failed: 400: Bad Request")
        /\ mexcStatus' = IF ok THEN StatusAfterCall(cl, mexcStatus) ELSE mexcStatus
        /\ last' = [kind |-> IF ok THEN "tradeOk" ELSE "tradeFail", id |-> c.id,
                    refresh |-> IF ~ok THEN "none"
                                ELSE IF AccountPreconditions(cl) THEN "sent" ELSE "skipped"]
        /\ UNCHANGED << isLoggedIn, settings, marketData, accountVars, lastAction, isLoading,
                        nUser, now, fetched >>
        /\ NoEffects(IF ok THEN CallRefreshAccountData(cl, h) ELSE Pending)

\* the order request of cycle i settles: refreshAccountData() and
\* setIsAnalyzing(false), or the catch block
TradeSettles(i, ok) ==
    LET c == cycles[i]
        cl == c.snap.refreshAccountData
        h == [Pending EXCEPT !.cy = RemoveAt(cycles, i), !.an = FALSE]
    IN  /\ c.pc = "trade"
        /\ logs' = IF ok THEN logs
                         ELSE addLog(logs, "ERROR", "AI analysis failed: 400: Bad Request")
        /\ mexcStatus' = IF ok THEN StatusAfterCall(cl, mexcStatus) ELSE mexcStatus
        /\ last' = [kind |-> IF ok THEN "tradeOk" ELSE "tradeFail", id |-> c.id,
                    refresh |-> IF ~ok THEN "none"
                                ELSE IF AccountPreconditions(cl) THEN "sent" ELSE "skipped"]
        /\ UNCHANGED << isLoggedIn, settings, marketData, accountVars, lastAction, isLoading,
                        nUser, now, fetched >>
        /\ NoEffects(IF ok THEN CallRefreshAccountData(cl, h) ELSE h)

(***************************************************************************)
(* The specifications: every task step, within bounds.                     *)
(***************************************************************************)
Within(inFlight, users, tickers, accounts, decisions, entries) ==
    /\ nTicker <= tickers /\ Len(tickerReqs) <= inFlight
    /\ nAccount <= accounts /\ Len(accountReqs) <= inFlight
    /\ nCycle <= decisions /\ Len(cycles) <= inFlight
    /\ nUser <= users
    /\ Len(logs) <= entries

Bounded == Within(MaxInFlight, MaxUserActs, MaxTickerReqs, MaxAccountReqs, MaxCycles, MaxLogLen)

\* the decision cycle and the trade executor, with the tasks that feed them
Next ==
    \/ \E i \in 1..Len(tickerReqs) : \E ok \in BOOLEAN : TickerSettles(i, ok) /\ Bounded'
    \/ AccountTimerFires /\ Bounded'
    \/ \E i \in 1..Len(accountReqs) : \E reply \in AccountReplies(accountReqs[i].id) :
          AccountSettles(i, reply) /\ Bounded'
    \/ CycleTimerFires /\ Bounded'
    \/ \E i \in 1..Len(cycles) : \E reply \in OracleReplies : OracleSettles(i, reply) /\ Bounded'
    \/ \E i \in 1..Len(cycles) : \E ok \in BOOLEAN : TradeSettles(i, ok) /\ Bounded'
    \/ handleLogin /\ Bounded'
    \/ Logout /\ Bounded'
    \/ ToggleAutoTrading /\ Bounded'
    \/ SetLiveMode /\ Bounded'

Spec == Init /\ [][Next]_vars

\* how many ticker requests failed so far
TickerFails == nTicker - Len(tickerReqs) - Len(fetched)

\* the market poller alone, over more ticks than the history holds
BoundedMarket ==
    /\ Within(MaxPollsInFlight, 0, MaxPolls, 0, 0, 0)
    /\ TickerFails <= MaxTickerFails

NextMarket ==
    \/ MarketTimerFires /\ BoundedMarket'
    \/ \E i \in 1..Len(tickerReqs) : \E ok \in BOOLEAN : TickerSettles(i, ok) /\ BoundedMarket'

SpecMarket == Init /\ [][NextMarket]_vars

\* the ledger alone, over more emissions than it holds
BoundedLedger == Within(1, MaxLedgerActs, 2, 0, 0, LogCap)

NextLedger ==
    \/ \E i \in 1..Len(tickerReqs) : \E ok \in BOOLEAN : TickerSettles(i, ok) /\ BoundedLedger'
    \/ handleLogin /\ BoundedLedger'
    \/ handleSave /\ BoundedLedger'
    \/ ClearLogs /\ BoundedLedger'

SpecLedger == Init /\ [][NextLedger]_vars

\* the account synchronizer and what activates it
BoundedAccount == Within(MaxInFlight, MaxAccountActs, MaxTickerReqs, MaxAccountReqs, 0, LogCap)

NextAccount ==
    \/ \E i \in 1..Len(tickerReqs) : \E ok \in BOOLEAN : TickerSettles(i, ok) /\ BoundedAccount'
    \/ AccountTimerFires /\ BoundedAccount'
    \/ \E i \in 1..Len(accountReqs) : \E reply \in AccountReplies(accountReqs[i].id) :
          AccountSettles(i, reply) /\ BoundedAccount'
    \/ handleLogin /\ BoundedAccount'
    \/ Logout /\ BoundedAccount'
    \/ SetMexcKeys /\ BoundedAccount'

SpecAccount == Init /\ [][NextAccount]_vars

\* the decision cycle while the settings are edited
BoundedEdits ==
    Within(MaxInFlight, MaxEdits, MaxEditTickers, MaxAccountReqs, MaxCycles, MaxEditLogLen)

NextEdits ==
    \/ \E i \in 1..Len(tickerReqs) : \E ok \in BOOLEAN : TickerSettles(i, ok) /\ BoundedEdits'
    \/ \E i \in 1..Len(accountReqs) : \E reply \in AccountReplies(accountReqs[i].id) :
          AccountSettles(i, reply) /\ BoundedEdits'
    \/ CycleTimerFires /\ BoundedEdits'
    \/ \E i \in 1..Len(cycles) : \E reply \in OracleReplies : OracleSettles(i, reply) /\ BoundedEdits'
    \/ \E i \in 1..Len(cycles) : \E ok \in BOOLEAN : TradeSettles(i, ok) /\ BoundedEdits'
    \/ handleLogin /\ BoundedEdits'
    \/ SetLiveMode /\ BoundedEdits'
    \/ SetMexcKeys /\ BoundedEdits'
    \/ SetTradingSymbol /\ BoundedEdits'

SpecEdits == Init /\ [][NextEdits]_vars

\* the three scheduling effects under every kind of user action
BoundedTimers ==
    Within(MaxPollsInFlight, MaxTimerActs, MaxTimerTickers, MaxAccountReqs, MaxCycles, MaxEditLogLen)

NextTimers ==
    \/ MarketTimerFires /\ BoundedTimers'
    \/ \E i \in 1..Len(tickerReqs) : \E ok \in BOOLEAN : TickerSettles(i, ok) /\ BoundedTimers'
    \/ AccountTimerFires /\ BoundedTimers'
    \/ \E i \in 1..Len(accountReqs) : \E reply \in AccountReplies(accountReqs[i].id) :
          AccountSettles(i, reply) /\ BoundedTimers'
    \/ CycleTimerFires /\ BoundedTimers'
    \/ \E i \in 1..Len(cycles) : \E reply \in OracleReplies : OracleSettles(i, reply) /\ BoundedTimers'
    \/ \E i \in 1..Len(cycles) : \E ok \in BOOLEAN : TradeSettles(i, ok) /\ BoundedTimers'
    \/ handleLogin /\ BoundedTimers'
    \/ Logout /\ BoundedTimers'
    \/ ToggleAutoTrading /\ BoundedTimers'
    \/ SetLiveMode /\ BoundedTimers'
    \/ SetMexcKeys /\ BoundedTimers'
    \/ SetTradingSymbol /\ BoundedTimers'
    \/ SetOtherField /\ BoundedTimers'

SpecTimers == Init /\ [][NextTimers]_vars

\* the ledger while the clock advances between some emissions and not others
BoundedClock ==
    /\ Within(MaxInFlight, MaxClockActs, MaxTickerReqs, MaxAccountReqs, 0, MaxLogLen)
    /\ now <= MaxClock

NextClock ==
    \/ Tick /\ BoundedClock'
    \/ \E i \in 1..Len(tickerReqs) : \E ok \in BOOLEAN : TickerSettles(i, ok) /\ BoundedClock'
    \/ AccountTimerFires /\ BoundedClock'
    \/ \E i \in 1..Len(accountReqs) : \E reply \in AccountReplies(accountReqs[i].id) :
          AccountSettles(i, reply) /\ BoundedClock'
    \/ handleLogin /\ BoundedClock'

SpecClock == Init /\ [][NextClock]_vars

(***************************************************************************)
(* Properties.                                                             *)
(***************************************************************************)
\* the orders awaiting the exchange
PendingOrders == { i \in 1..Len(cycles) : cycles[i].pc = "trade" }

\* C1: a decision cycle posts an order if and only if, for the settings its
\* closure captured and the oracle's answer, isAutoTrading and isLiveMode are
\* true and the action is not WAIT; every order awaiting the exchange comes
\* from such a cycle.
C1_TradeIffLiveAndActs ==
    /\ last.kind = "oracleOk" =>
          ( (\E i \in PendingOrders : cycles[i].id = last.id)
            <=> (last.auto /\ last.live /\ last.action # "WAIT") )
    /\ last.kind = "oracleFail" => ~(\E i \in PendingOrders : cycles[i].id = last.id)
    /\ \A i \in PendingOrders :
          /\ cycles[i].snap.settings.isAutoTrading
          /\ cycles[i].snap.settings.isLiveMode
          /\ cycles[i].request.action # "WAIT"

\* C1 witness: in simulation mode a LONG decision was stored and logged as a
\* TRADE entry, and no order was posted
C1_Witness ==
    /\ last.kind = "oracleOk" /\ last.action = "LONG" /\ ~last.live
    /\ lastAction # <<>> /\ lastAction[1].action = "LONG" /\ lastAction[1].confidence = 80
    /\ logs # <<>> /\ logs[1].type = "TRADE"
    /\ PendingOrders = {}

\* in live mode a LONG decision posted its order
C1_WitnessLive ==
    /\ last.kind = "oracleOk" /\ last.action = "LONG" /\ last.live
    /\ \E i \in PendingOrders : cycles[i].id = last.id /\ cycles[i].request.action = "LONG"

\* C2: at most one decision cycle is in flight at any moment.
C2_AtMostOneCycleInFlight == Len(cycles) <= 1

\* C3: when the order request of a cycle settles, by success or by failure,
\* refreshAccountData is called.
C3_RefreshAfterEveryTrade ==
    last.kind \in {"tradeOk", "tradeFail"} => last.refresh # "none"

\* the forced refresh does happen after a successful submission
C3_RefreshAfterSuccess ==
    /\ last.kind = "tradeOk" /\ last.refresh = "sent"
    /\ \E i \in 1..Len(accountReqs) : accountReqs[i].id = nAccount

\* the step emitted exactly one entry of the given type: it is at the head,
\* the earlier entries follow in their order, the oldest dropped at the cap
EmitsOne(before, after, type) ==
    /\ after # <<>>
    /\ after[1].type = type
    /\ Len(after) = IF Len(before) < LogCap THEN Len(before) + 1 ELSE LogCap
    /\ \A k \in 2..Len(after) : after[k] = before[k - 1]

\* the Account Synchronizer preconditions, on the current state
SyncPreconditions == isLoggedIn /\ settings.mexcApiKey # "" /\ settings.mexcSecretKey # ""

\* C4: the step in which an account request fails (rejected, unparseable, or
\* an error payload) leaves the five AccountState parts as they were, sets
\* the exchange status to ERROR and emits exactly one ERROR entry.
C4_FailedSyncKeepsAccountState ==
    [][ (last' # last /\ last'.kind = "accountFail") =>
          ( /\ UNCHANGED accountVars
            /\ mexcStatus' = "ERROR"
            /\ EmitsOne(logs, logs', "ERROR") ) ]_vars

\* C4 witness: a sync failed after an earlier one had filled the account state
C4_Witness ==
    /\ last.kind = "accountFail"
    /\ mexcStatus = "ERROR"
    /\ logs[1].type = "ERROR"
    /\ spotBalances # <<>> /\ mexcTrades # <<>>

\* C5: the five AccountState parts all come from one successful response
\* (a field the response lacks is the empty list), or are all at their
\* initial value.
C5_AccountStateFromOneResponse ==
    \/ /\ spotBalances = <<>> /\ futuresBalances = <<>> /\ mexcPositions = <<>>
       /\ mexcOrders = <<>> /\ mexcTrades = <<>>
    \/ \E id \in 1..nAccount :
         /\ spotBalances = OrEmpty(AccountData(id), "spotBalances")
         /\ futuresBalances = OrEmpty(AccountData(id), "futuresBalances")
         /\ mexcPositions = OrEmpty(AccountData(id), "positions")
         /\ mexcOrders = OrEmpty(AccountData(id), "orders")
         /\ mexcTrades = OrEmpty(AccountData(id), "trades")

\* C5 witness: a second response replaced the first one
C5_Witness ==
    /\ last.kind = "accountOk" /\ last.id = 2
    /\ mexcStatus = "CONNECTED"
    /\ spotBalances = AccountData(2).spotBalances
    /\ mexcOrders = <<>>
    /\ Len(logs) >= 2 /\ logs[1].type = "SUCCESS" /\ logs[2].type = "SUCCESS"
       /\ logs[2].message = "MEXC account synced successfully"

\* C6: the price history holds at most 50 points: the 50 most recent
\* successful fetches (all of them when fewer), oldest first.
C6_HistoryIsLast50Fetches ==
    LET history == IF marketData = <<>> THEN <<>> ELSE marketData[1].history
    IN  /\ Len(history) <= 50
        /\ Len(history) = IF Len(fetched) <= 50 THEN Len(fetched) ELSE 50
        /\ \A k \in 1..Len(history) :
              history[k] = fetched[Len(fetched) - Len(history) + k]
        /\ marketData # <<>> => marketData[1].price = fetched[Len(fetched)].price

\* C6 witness: more than 50 fetches succeeded, failures among them
C6_Witness ==
    /\ Len(fetched) > 50
    /\ TickerFails >= 1
    /\ Len(marketData[1].history) = 50

\* C7: the ledger never holds more than 100 entries; an emission puts its
\* entry first and keeps the earlier ones behind it in their order; a clear
\* leaves the ledger empty.
C7_LedgerCappedNewestFirst ==
    /\ [](Len(logs) <= 100)
    /\ [][ (nUser' # nUser /\ last'.kind \in {"login", "save"}) =>
             EmitsOne(logs, logs', "SUCCESS") ]_vars
    /\ [][ (nUser' # nUser /\ last'.kind = "clear") => logs' = <<>> ]_vars

\* C7 witness: the ledger is full and the login entry, the oldest, was dropped
C7_Witness ==
    /\ Len(logs) = 100
    /\ nUser > 101
    /\ \A k \in 1..100 : logs[k].message = "Configuration saved locally."

\* the ledger was cleared after it had been filled
C7_WitnessClear == last.kind = "clear" /\ logs = <<>> /\ nUser > 100

\* C8: the step in which a ticker fetch fails leaves the MarketSnapshot as it
\* was and emits no ledger entry; while no fetch has succeeded there is no
\* snapshot.
C8_FailedFetchKeepsSnapshot ==
    /\ [](fetched = <<>> => marketData = <<>>)
    /\ [][ (last' # last /\ last'.kind = "tickerFail") =>
             (marketData' = marketData /\ logs' = logs) ]_vars

\* C8 witness: two fetches failed after one had succeeded
C8_Witness ==
    /\ last.kind = "tickerFail"
    /\ TickerFails = 2
    /\ marketData # <<>> /\ marketData[1].history = fetched

C9_WitnessAccount ==
    /\ last.kind = "accountFail" /\ SyncPreconditions /\ Len(accountTimer) = 1

\* C10: a refreshAccountData call made while the session is not
\* authenticated or a credential is empty sends no request, sets the status
\* to DISCONNECTED, leaves AccountState alone and emits no entry.
C10_NoFetchWhenPreconditionsUnmet ==
    [][ ( /\ last' # last
          /\ \/ last'.kind = "tradeOk"
             \/ last'.kind = "accountTick"
          /\ ~SyncPreconditions ) =>
          ( /\ nAccount' = nAccount /\ accountReqs' = accountReqs
            /\ mexcStatus' = "DISCONNECTED"
            /\ UNCHANGED accountVars
            /\ logs' = logs ) ]_vars

\* C11: while auto-trading stays on and a snapshot exists, a market update or
\* an account sync alone starts no decision cycle and leaves the armed timer
\* as it is.
C11_CyclesOnlyAtActivationOrTimer ==
    [][ ( /\ last' # last
          /\ last'.kind \in {"tickerOk", "accountOk"}
          /\ marketData # <<>>
          /\ settings.isAutoTrading /\ settings'.isAutoTrading ) =>
          ( nCycle' = nCycle /\ cycleTimer' = cycleTimer ) ]_vars

\* a cycle started by the interval timer
C11_TimerStartsCycle == last.kind = "cycleTick" /\ last.started /\ nCycle >= 1

\* C12: while isAutoTrading is false no timer of the decision effect is armed
\* and no cycle starts; switching it off leaves the cycles in flight alone,
\* and they go on to post their order.
C12_IdleHoldsNoTimer ==
    /\ [](~settings.isAutoTrading => cycleTimer = <<>>)
    /\ [][ ~settings'.isAutoTrading => nCycle' = nCycle ]_vars
    /\ [][ (nUser' # nUser /\ last'.kind = "toggleAuto" /\ ~settings'.isAutoTrading) =>
             (cycles' = cycles /\ cycleTimer' = <<>>) ]_vars
    /\ [][ (~settings.isAutoTrading /\ ~settings'.isAutoTrading /\ cycles' # cycles) =>
             \E i \in 1..Len(cycles) :
                \/ cycles' = RemoveAt(cycles, i)
                \/ /\ cycles[i].pc = "oracle" /\ cycles[i].snap.settings.isLiveMode
                   /\ cycles' = [cycles EXCEPT ![i] = [@ EXCEPT !.pc = "trade",
                                                                !.request = cycles'[i].request]] ]_vars

\* C12 witness: auto-trading was switched off while a cycle awaited the
\* oracle; the cycle went on to post its order, and no timer is armed
C12_Witness ==
    /\ ~settings.isAutoTrading
    /\ cycleTimer = <<>>
    /\ last.kind = "oracleOk" /\ last.live
    /\ \E i \in PendingOrders : cycles[i].id = last.id

\* C13: the step in which the oracle request of a cycle is rejected emits
\* exactly one entry, of type ERROR (so no TRADE entry), leaves lastAction as
\* it was and ends the cycle without an order.
C13_OracleFailureKeepsDecision ==
    [][ (last' # last /\ last'.kind = "oracleFail") =>
          ( /\ EmitsOne(logs, logs', "ERROR")
            /\ lastAction' = lastAction
            /\ \A i \in 1..Len(cycles') : cycles'[i].id # last'.id
            /\ Len(cycles') = Len(cycles) - 1 ) ]_vars

\* C13 witness: the oracle failed while a LONG decision of an earlier cycle
\* was stored
C13_Witness ==
    /\ last.kind = "oracleFail"
    /\ lastAction # <<>> /\ Field(lastAction[1], "action") = "LONG"
    /\ logs[1].type = "ERROR" /\ logs[1].message = "AI analysis failed: 500: Internal Server Error"

\* C14: the step in which the oracle's payload is parsed stores it as the
\* decision whatever its action, and emits one TRADE entry with the action
\* and the confidence when the action is not WAIT, and no entry when it is.
C14_DecisionReplacedTradeLogged ==
    [][ (last' # last /\ last'.kind = "oracleOk") =>
          ( /\ Len(lastAction') = 1
            /\ Field(lastAction'[1], "action") = last'.action
            /\ IF last'.action # "WAIT"
                  THEN /\ EmitsOne(logs, logs', "TRADE")
                       /\ logs'[1].message =
                             "AI decision: " \o Field(lastAction'[1], "action") \o " ("
                                \o Field(lastAction'[1], "confidence") \o "%)"
                  ELSE logs' = logs ) ]_vars

\* C14 witness: a WAIT decision replaced a LONG one and emitted nothing
C14_Witness ==
    /\ last.kind = "oracleOk" /\ last.action = "WAIT"
    /\ lastAction = << [action |-> "WAIT", confidence |-> 50, reason |-> "flat"] >>
    /\ logs # <<>> /\ logs[1].message = "AI decision: LONG (80%)"

\* C15: an order is awaiting the exchange only while the session is
\* authenticated.
C15_NoOrderWhileLoggedOut == PendingOrders # {} => isLoggedIn

\* an order posted by a cycle that started and ran in an authenticated session
C15_OrderWhileLoggedIn ==
    /\ isLoggedIn /\ PendingOrders # {}
    /\ \A i \in PendingOrders : cycles[i].snap.refreshAccountData.isLoggedIn

\* C16: no two orders with the same settings snapshot await the exchange at
\* the same time.
C16_OneOrderPerSettingsSnapshot ==
    \A i, j \in PendingOrders :
        i # j => cycles[i].snap.settings # cycles[j].snap.settings

\* C17: the refreshAccountData call a cycle makes after its order, made
\* while the session is logged in with both keys, sends an account request
\* at once, whatever is already in flight.
C17_ForcedRefreshFetches ==
    [][ (last' # last /\ last'.kind = "tradeOk" /\ SyncPreconditions) =>
          ( /\ nAccount' = nAccount + 1
            /\ Len(accountReqs') = Len(accountReqs) + 1
            /\ accountReqs'[Len(accountReqs')].id = nAccount' ) ]_vars

\* a forced refresh was sent while a regular account request was in flight
C17_ForcedRefreshOverlaps ==
    /\ last.kind = "tradeOk" /\ last.refresh = "sent"
    /\ Len(accountReqs) = 2
    /\ SyncPreconditions

\* C18: the account timer is armed exactly while the session is logged in
\* with both keys, and then calls the current refreshAccountData; without
\* the preconditions the timer cannot fire and no step but a cycle's forced
\* refresh sends an account request; the step that makes the preconditions
\* true sends one request with the current keys.
C18_AccountTimerFollowsPreconditions ==
    /\ [](Len(accountTimer) = IF SyncPreconditions THEN 1 ELSE 0)
    /\ [](SyncPreconditions => accountTimer[1] = [settings |-> settings, isLoggedIn |-> TRUE])
    /\ [](~SyncPreconditions => ~ENABLED AccountTimerFires)
    /\ [][ (~SyncPreconditions' /\ last'.kind # "tradeOk") => nAccount' = nAccount ]_vars
    /\ [][ (~SyncPreconditions /\ SyncPreconditions') =>
             ( /\ nAccount' = nAccount + 1
               /\ accountReqs' = Append(accountReqs,
                     [ id |-> nAccount', apiKey |-> settings'.mexcApiKey,
                       secretKey |-> settings'.mexcSecretKey,
                       symbol |-> settings'.tradingSymbol ]) ) ]_vars

\* C18 witness: filling in the second key sent an account request and armed
\* the timer
C18_Witness ==
    /\ last.kind = "setKey" /\ SyncPreconditions
    /\ nAccount = 1 /\ Len(accountReqs) = 1 /\ Len(accountTimer) = 1

\* a logout after a sync cancelled the timer
C18_WitnessLogout ==
    /\ last.kind = "logout" /\ accountTimer = <<>>
    /\ settings.mexcApiKey # "" /\ settings.mexcSecretKey # ""
    /\ mexcStatus = "CONNECTED"

\* emptying a key cancelled the timer
C18_WitnessKeyEmptied ==
    /\ last.kind = "setKey" /\ isLoggedIn /\ ~SyncPreconditions
    /\ accountTimer = <<>> /\ nAccount >= 1

\* C19: while no snapshot exists no cycle has reached the oracle, no decision
\* is stored and isAnalyzing is false; a runTradingCycle call made by the
\* timer then changes nothing.
C19_NoSnapshotNoCycle ==
    /\ [](marketData = <<>> =>
            (cycles = <<>> /\ nCycle = 0 /\ lastAction = <<>> /\ ~isAnalyzing))
    /\ [][ (last' # last /\ last'.kind = "cycleTick" /\ marketData = <<>>) =>
             UNCHANGED << cycles, nCycle, logs, lastAction, isAnalyzing, accountVars,
                          accountReqs, nAccount, mexcStatus, marketData, cycleTimer >> ]_vars

\* C19 witness: the decision timer fired before the first ticker fetch
\* succeeded
C19_Witness ==
    /\ last.kind = "cycleTick" /\ ~last.started
    /\ marketData = <<>> /\ settings.isAutoTrading
    /\ cycles = <<>> /\ logs = <<>>

\* C20: the request a cycle has in flight is built from the settings, the
\* snapshot and the positions the cycle captured when it started: the oracle
\* request and the order carry the same symbol and leverage, the order the
\* captured keys and the price of the snapshot sent to the oracle, and an
\* order exists only if the captured settings are in live mode.  A cycle in
\* flight keeps what it captured, and a cycle that starts captures the state
\* of the render it starts in.
C20_CycleUsesItsSnapshot ==
    /\ [](\A i \in 1..Len(cycles) :
            LET c == cycles[i]
            IN  IF c.pc = "oracle"
                   THEN /\ c.request.tradingSymbol = c.snap.settings.tradingSymbol
                        /\ c.request.defaultLeverage = c.snap.settings.defaultLeverage
                        /\ c.request.marketData = c.snap.marketData[1]
                        /\ c.request.currentPositionSide =
                              IF c.snap.mexcPositions = <<>> THEN "NONE"
                              ELSE c.snap.mexcPositions[1].side
                   ELSE /\ c.request.apiKey = c.snap.settings.mexcApiKey
                        /\ c.request.secretKey = c.snap.settings.mexcSecretKey
                        /\ c.request.symbol = c.snap.settings.tradingSymbol
                        /\ c.request.leverage = c.snap.settings.defaultLeverage
                        /\ c.request.price = c.snap.marketData[1].price
                        /\ c.snap.settings.isLiveMode)
    /\ [][ \A i \in 1..Len(cycles) : \A j \in 1..Len(cycles') :
             cycles[i].id = cycles'[j].id => cycles'[j].snap = cycles[i].snap ]_vars
    /\ [][ \A j \in 1..Len(cycles') :
             cycles'[j].id > nCycle =>
                /\ cycles'[j].snap.settings = settings'
                /\ cycles'[j].snap.marketData = marketData'
                /\ cycles'[j].snap.mexcPositions = mexcPositions' ]_vars

\* C20 witness: the symbol was edited while a cycle awaited the oracle; its
\* order carries the symbol it captured
C20_Witness ==
    \E i \in PendingOrders :
        /\ cycles[i].snap.settings.tradingSymbol # settings.tradingSymbol
        /\ cycles[i].request.symbol = cycles[i].snap.settings.tradingSymbol
        /\ cycles[i].request.symbol # settings.tradingSymbol

\* the market was updated while a cycle was in flight; its order carries the
\* price it captured
C20_WitnessMarket ==
    \E i \in PendingOrders :
        /\ cycles[i].snap.marketData # marketData
        /\ cycles[i].request.price # marketData[1].price

\* live mode was switched off while a cycle awaited the oracle; the cycle
\* posted its order, a later cycle does not
C20_WitnessLiveMode ==
    /\ ~settings.isLiveMode
    /\ last.kind = "oracleOk" /\ last.live
    /\ \E i \in PendingOrders : cycles[i].id = last.id
    /\ \E j \in 1..Len(cycles) : cycles[j].pc = "oracle" /\ ~cycles[j].snap.settings.isLiveMode

\* the keys were edited while a cycle awaited the oracle
C20_WitnessKeys ==
    \E i \in PendingOrders : cycles[i].request.apiKey # settings.mexcApiKey

\* an account sync changed the positions while a cycle awaited the oracle
C20_WitnessPositions ==
    \E i \in 1..Len(cycles) :
        /\ cycles[i].pc = "oracle" /\ cycles[i].request.currentPositionSide = "NONE"
        /\ mexcPositions # <<>>

\* C21: the currentPositionSide a cycle sends to the oracle is the side of
\* the first position of the list held when the cycle started, and it is
\* NONE exactly when that list was empty.
C21_PositionSideOfFirstPosition ==
    /\ [](\A i \in 1..Len(cycles) :
            cycles[i].pc = "oracle" =>
               LET held == cycles[i].snap.mexcPositions
                   side == cycles[i].request.currentPositionSide
               IN  /\ held # <<>> => side = Head(held).side
                   /\ side = "NONE" <=> held = <<>>)
    /\ [][ \A j \in 1..Len(cycles') :
             cycles'[j].id > nCycle => cycles'[j].snap.mexcPositions = mexcPositions' ]_vars

\* C21 witness: a cycle started while a SHORT and a LONG position were held,
\* the SHORT one first
C21_Witness ==
    \E i \in 1..Len(cycles) :
        /\ cycles[i].pc = "oracle"
        /\ Len(mexcPositions) = 2 /\ mexcPositions[1].side = "SHORT"
        /\ mexcPositions[2].side = "LONG"
        /\ cycles[i].snap.mexcPositions = mexcPositions
        /\ cycles[i].request.currentPositionSide = "SHORT"

\* a cycle started with no open position
C21_WitnessNone ==
    \E i \in 1..Len(cycles) :
        cycles[i].pc = "oracle" /\ cycles[i].request.currentPositionSide = "NONE"

\* the outcome of the latest refreshAccountData call: DISCONNECTED when it
\* returned at its guard or when none was made, else how its request ended
LatestSyncOutcome ==
    IF syncs.unmet \/ syncs.outcomes = <<>>
       THEN "DISCONNECTED"
       ELSE syncs.outcomes[Len(syncs.outcomes)]

\* C22: whenever no account request is in flight the status is the outcome
\* of the latest refreshAccountData call.
C22_StatusIsLatestCallOutcome ==
    accountReqs = <<>> => mexcStatus = LatestSyncOutcome

\* the status after the only call made, which succeeded
C22_SingleCallConnected ==
    /\ accountReqs = <<>> /\ syncs = [outcomes |-> <<"CONNECTED">>, unmet |-> FALSE]
    /\ mexcStatus = "CONNECTED"

\* C23: a cycle has at most one order: an order request in flight belongs to
\* a cycle that was already in flight before the step, and the step in which
\* an order request settles, accepted or rejected, ends its cycle and posts
\* no other order.
C23_OneOrderPerCycle ==
    /\ [](\A i, j \in 1..Len(cycles) : cycles[i].id = cycles[j].id => i = j)
    /\ [](\A i \in 1..Len(cycles) : cycles[i].id <= nCycle)
    /\ [][ \A j \in 1..Len(cycles') :
             cycles'[j].pc = "trade" =>
                \E i \in 1..Len(cycles) : cycles[i].id = cycles'[j].id ]_vars
    /\ [][ (last' # last /\ last'.kind \in {"tradeOk", "tradeFail"}) =>
             ( /\ \A j \in 1..Len(cycles') : cycles'[j].id # last'.id
               /\ Len(cycles') = Len(cycles) - 1
               /\ Cardinality({j \in 1..Len(cycles') : cycles'[j].pc = "trade"})
                     = Cardinality(PendingOrders) - 1 ) ]_vars

\* C23 witness: the order of a cycle was rejected and the cycle has ended
C23_Witness ==
    /\ last.kind = "tradeFail"
    /\ \A i \in 1..Len(cycles) : cycles[i].id # last.id
    /\ logs[1].type = "ERROR"

\* C24: the stored decision always has an action of the oracle's vocabulary,
\* a confidence and a reason; a parsed payload without a valid action is
\* handled as a failure: it is not stored, emits no TRADE entry and posts no
\* order.
C24_StoredDecisionComplete ==
    /\ lastAction # <<>> =>
          /\ {"action", "confidence", "reason"} \subseteq DOMAIN lastAction[1]
          /\ lastAction[1].action \in {"LONG", "SHORT", "CLOSE", "WAIT"}
    /\ \A k \in 1..Len(logs) :
          logs[k].type = "TRADE" => logs[k].message # "AI decision: undefined (undefined%)"
    /\ \A i \in PendingOrders : cycles[i].request.action # Undefined

\* a complete decision is stored
C24_CompleteDecisionStored ==
    lastAction = << [action |-> "LONG", confidence |-> 80, reason |-> "momentum"] >>

\* C25: a step changes the ledger only by a clear, which empties it, or by
\* one emission: the new entry at the head, every earlier entry one place
\* further back and unchanged, and only the entry that was at place 100
\* dropped.
C25_EmissionKeepsEarlierEntries ==
    [][ logs' # logs =>
          IF last'.kind = "clear"
             THEN logs' = <<>>
             ELSE /\ Len(logs') = (IF Len(logs) = 100 THEN 100 ELSE Len(logs) + 1)
                  /\ \A k \in 1..Len(logs) : k < 100 => logs'[k + 1] = logs[k]
                  /\ logs'[1].type \in {"SUCCESS", "ERROR", "TRADE"} ]_vars

\* C25 witness: an emission into a full ledger dropped the oldest entry, the
\* one of the login
C25_Witness ==
    /\ last.kind = "save" /\ nUser = 102
    /\ Len(logs) = 100
    /\ logs[100].message = "Configuration saved locally."

\* C26: whenever the preconditions of the account synchronizer do not hold
\* (logged out or a key empty) and no account request is in flight, the
\* exchange status is DISCONNECTED.
C26_DisconnectedWhenUnmet ==
    (~SyncPreconditions /\ accountReqs = <<>>) => mexcStatus = "DISCONNECTED"

\* a refreshAccountData call whose closure found the preconditions unmet set
\* the status to DISCONNECTED
C26_UnmetCallDisconnects ==
    /\ syncs.unmet /\ syncs.outcomes # <<>>
    /\ ~SyncPreconditions /\ accountReqs = <<>>
    /\ mexcStatus = "DISCONNECTED"

\* C27: when the two latest account calls both succeeded and nothing is in
\* flight, the AccountState is the response of the call issued last.
C27_LastIssuedResponseWins ==
    LET n == Len(syncs.outcomes)
    IN  (/\ accountReqs = <<>> /\ n >= 2
         /\ syncs.outcomes[n] = "CONNECTED" /\ syncs.outcomes[n - 1] = "CONNECTED")
        => /\ spotBalances = OrEmpty(AccountData(n), "spotBalances")
           /\ futuresBalances = OrEmpty(AccountData(n), "futuresBalances")
           /\ mexcPositions = OrEmpty(AccountData(n), "positions")
           /\ mexcOrders = OrEmpty(AccountData(n), "orders")
           /\ mexcTrades = OrEmpty(AccountData(n), "trades")

\* two calls overlapped and completed in the order of their issue
C27_CompletedInIssueOrder ==
    /\ last.kind = "accountOk" /\ last.id = 2 /\ accountReqs = <<>>
    /\ syncs.outcomes = <<"CONNECTED", "CONNECTED">>
    /\ mexcTrades = AccountData(2).trades

\* C28: isAnalyzing is true exactly while a decision cycle is in flight.
C28_AnalyzingIffCycleInFlight ==
    isAnalyzing <=> cycles # <<>>

\* one cycle in flight, waiting for the exchange, with the flag set
C28_SingleCycleAnalyzing ==
    /\ isAnalyzing /\ Len(cycles) = 1 /\ cycles[1].pc = "trade"

\* C29: each of the three tasks has at most one armed interval timer, and
\* an armed timer holds the callback of the latest render, never an
\* outdated one.
C29_AtMostOneTimerPerTask ==
    /\ Len(marketTimer) <= 1 /\ Len(accountTimer) <= 1 /\ Len(cycleTimer) <= 1
    /\ \A k \in 1..Len(marketTimer) : marketTimer[k] = MarketClosure(settings, isLoading)
    /\ \A k \in 1..Len(accountTimer) : accountTimer[k] = AccountClosure(settings, isLoggedIn)
    /\ \A k \in 1..Len(cycleTimer) :
          cycleTimer[k] = CycleClosure(settings, marketData, mexcPositions, isLoggedIn)

\* C29 witness: after a symbol edit, with all three timers armed again
C29_Witness ==
    /\ last.kind = "setSymbol" /\ nUser >= 2
    /\ Len(marketTimer) = 1 /\ Len(accountTimer) = 1 /\ Len(cycleTimer) = 1
    /\ marketTimer[1].symbol = settings.tradingSymbol

\* a logout cancelled the account timer and re-armed the decision timer once
C29_WitnessLogout ==
    /\ last.kind = "logout" /\ nUser >= 2
    /\ accountTimer = <<>> /\ settings.mexcApiKey # "" /\ settings.mexcSecretKey # ""
    /\ Len(cycleTimer) = 1 /\ Len(marketTimer) = 1

\* the prices /api/market/ticker has answered with for a symbol
PricesOf(symbol) == { PriceAt(symbol, id) : id \in 1..nTicker }

\* the current price and every history point of a snapshot are of the symbol
SnapshotOf(md, symbol) ==
    /\ md.price \in PricesOf(symbol)
    /\ \A k \in 1..Len(md.history) : md.history[k].price \in PricesOf(symbol)

\* C30: the current price and every history point of the snapshot were
\* fetched for the configured trading symbol, and so was the snapshot of
\* every request a decision cycle sends to the oracle.
C30_SnapshotOfConfiguredSymbol ==
    /\ marketData # <<>> => SnapshotOf(marketData[1], settings.tradingSymbol)
    /\ \A i \in 1..Len(cycles) :
          cycles[i].pc = "oracle" =>
             SnapshotOf(cycles[i].request.marketData, cycles[i].request.tradingSymbol)

\* after a symbol change whose predecessor was never fetched, the snapshot
\* holds points of the new symbol only
C30_OnlyNewSymbolFetched ==
    /\ last.kind = "tickerOk" /\ settings.tradingSymbol = "ETHUSDT"
    /\ marketData # <<>> /\ SnapshotOf(marketData[1], "ETHUSDT")

\* C31: a step in which an order is submitted is the continuation of that
\* cycle's oracle call, and in it the cycle's decision is stored and one
\* TRADE entry is emitted, at the head of the ledger, recording the action
\* the order carries.
C31_OrderAfterDecisionAndEntry ==
    [][ \A i \in 1..Len(cycles') :
          ( /\ cycles'[i].pc = "trade"
            /\ \A j \in PendingOrders : cycles[j].id # cycles'[i].id ) =>
          ( /\ last'.kind = "oracleOk" /\ last'.id = cycles'[i].id
            /\ \E j \in 1..Len(cycles) : cycles[j].id = cycles'[i].id /\ cycles[j].pc = "oracle"
            /\ Len(lastAction') = 1
            /\ Field(lastAction'[1], "action") = cycles'[i].request.action
            /\ EmitsOne(logs, logs', "TRADE")
            /\ logs'[1].message = DecisionMessage(lastAction'[1])
            /\ cycles'[i].request.action # "WAIT" ) ]_vars

\* C31 witness: a LONG order was just submitted, with its decision stored and
\* its TRADE entry at the head of the ledger
C31_Witness ==
    /\ last.kind = "oracleOk" /\ last.action = "LONG"
    /\ \E i \in PendingOrders : cycles[i].id = last.id /\ cycles[i].request.action = "LONG"
    /\ lastAction # <<>> /\ lastAction[1].action = "LONG"
    /\ logs # <<>> /\ logs[1].type = "TRADE" /\ logs[1].message = "AI decision: LONG (80%)"

\* C32: the entries in the ledger at the same time have pairwise distinct ids.
C32_DistinctIds ==
    \A j \in 1..Len(logs) : \A k \in 1..Len(logs) : j # k => logs[j].id # logs[k].id

\* entries emitted in different milliseconds have distinct ids
C32_DistinctAcrossMilliseconds ==
    /\ Len(logs) = 3 /\ now = 2
    /\ logs[1].id = "2" /\ logs[2].id = "1" /\ logs[3].id = "0"

====
